---------------------------- MODULE Spec2Model ----------------------------
(***************************************************************************)
(* Model of openSesame.py (ExpeditedAccess): the Tk controller (App) and   *)
(* the background worker that runs run_assign_access or run_coord_check.   *)
(*                                                                         *)
(* Granularity.  One worker action is one stretch of code between two      *)
(* points at which the worker blocks (time.sleep, a blocking window wait). *)
(* The controller's handlers run on the Tk thread and are atomic.  What    *)
(* the worker observes of the target application (window counts, OCR       *)
(* results, failures of window calls) is drawn afresh at every             *)
(* observation.                                                            *)
(*                                                                         *)
(* Time.  Durations are in milliseconds.  A call of _sleep_or_abort with a *)
(* positive duration takes at least one polling tick and at most as many   *)
(* as fit (capped by MaxTicks); the deadline loops (15 s locator, 1.5 s    *)
(* observation, 15 s re-check) admit a bounded number of polls.            *)
(***************************************************************************)
EXTENDS Integers, Sequences, FiniteSets, TLC

\* ---------------------------------------------------------------- bounds
MaxIds == 2          \* longest identifier list explored
MaxTicks == 2        \* most polling ticks one delay is followed through
LocPolls == 3        \* polls of the locator that fit before its deadline
ObsPolls == 2        \* samples of the post-advance observation window
RecPolls == 2        \* polls of the re-check loop after a correction resume
MaxPauses == 3       \* pauses one run is followed through
LogCap == 3          \* the run's log lines are counted up to this many
MaxMatch == 2        \* most windows matching the title at one lookup
MaxWindows == 3      \* most visible top-level windows of the target process
MaxTkq == 2          \* posted callbacks pending when a new run is started
MaxDets == 3         \* most detections in one argument of the classifier
MaxWords == 3        \* most words in one detection that is no title or label
BoxH == 20           \* height of a detection's bounding box
MaxMsgs == 3         \* lines the worker logs in the run that is followed
MaxTkLines == 2      \* lines of the controller's handlers held at a time

\* ------------------------------------------------------ program constants
TickMs == 50              \* _sleep_or_abort: time.sleep(min(0.05, ...))
DefaultDelayMs == 50      \* Config.click_delay / key_delay = 0.05
FocusMs == 200            \* _sleep_or_abort(0.2) after set_focus
WizardRetryMs == 1000     \* _sleep_or_abort(1.0) between wizard attempts
WizardAttempts == 15      \* for attempt in range(15)
RefocusMs == 100          \* _sleep_or_abort(0.1) before the advance
ResumeFocusMs == 200      \* _sleep_or_abort(0.2) after a pause is left
BaselineWindows == 2      \* expected visible top-level windows of the target
BelowPx == 100            \* constraint_y_max = label_y + 100 + 5
ShiftPx == 5              \* the 5 pixel shift on the Y axis
RightPx == 100            \* constraint_x_max = label_x_min + 100
OneUserWords == 2         \* word_count > 2: multiple users

Min2(a, b) == IF a < b THEN a ELSE b
Max2(a, b) == IF a > b THEN a ELSE b

\* ------------------------------------------------------------------ state
VARIABLES
    abort_event,     \* App.abort_event (threading.Event)
    resume_event,    \* App.resume_event
    worker_alive,    \* App.worker_thread is not None and is_alive()
    current_task,    \* App.current_task: "none" | "assign" | "coord"
    hooks,           \* _RESUME_HOOKS is not None
    btn_assign,      \* btn_assign enabled (also Save/Restore buttons)
    btn_coord,       \* btn_coord enabled
    btn_resume,      \* btn_resume enabled
    tkq,             \* callbacks posted with self.after(0, ...), in order
    cfg,             \* App.cfg as read when the run was started
    netids,          \* number of identifiers of the run (they are 1..netids)
    w,               \* the worker's position and local variables
    g,               \* observation of the run: what it did and reported
    detections,      \* argument of _evaluate_assignment_screen
    evaluated,       \* what _evaluate_assignment_screen returned for it
    log_queue,       \* App.log_queue: (target, line) pairs, oldest first
    output_sink,     \* lines appended to App.output_sink
    adv_output_sink, \* content of App.adv_output_sink
    emitted,         \* lines the worker has passed to its log callback
    delivered,       \* the worker's lines handed to a sink, in order
    draining,        \* _drain_log_queue is inside its loop
    form             \* the texts in the entries of the settings form

\* The parts that are followed on their own (ClsSpec, LogSpec, CfgSpec):
\* the classifier as a function of its argument, the log queue, and the
\* settings form a start request reads.
aux == <<detections, evaluated, log_queue, output_sink, adv_output_sink,
         emitted, delivered, draining, form>>

vars == <<abort_event, resume_event, worker_alive, current_task, hooks,
          btn_assign, btn_coord, btn_resume, tkq, cfg, netids, w, g, aux>>

ctl == <<abort_event, resume_event, worker_alive, current_task, hooks,
         btn_assign, btn_coord, btn_resume, tkq, cfg, netids, aux>>

\* The worker's locals when no run is active.
W0 ==
    [pc |-> "idle", ret |-> "none", idx |-> 0, processed_count |-> 0,
     ocr_status |-> "title_missing", count |-> -1, last_count |-> -1,
     locLeft |-> 0, attempt |-> 0, wizard_window |-> FALSE,
     sleepLeft |-> 0, obsLeft |-> 0,
     recLeft |-> 0, c |-> -1, k |-> 0, acrossPause |-> FALSE]

\* The observation of a run at its start.
G0 ==
    [task |-> "none", win |-> FALSE, inj |-> "none", ref |-> FALSE,
     opDone |-> FALSE,
     nlog |-> 0, final |-> "none", report |-> "none", err |-> "none",
     abortAtWait |-> FALSE, niceEnv |-> TRUE, onlySingle |-> TRUE,
     pauses |-> 0, multi |-> 0, resumed |-> FALSE, total |-> -1,
     stale |-> FALSE, pressed |-> FALSE, keys |-> <<>>, max_count |-> -1,
     loc_msgs |-> <<>>, typed |-> 0, completed |-> 0,
     outstanding |-> 0, sig |-> FALSE, inPause |-> FALSE]

\* No classification has been made.
NoResult == [status |-> "none", used |-> <<>>, bounds |-> <<>>]

\* The log queue and the sinks empty, the drain callback not running.
LogIdle ==
    /\ log_queue = <<>>
    /\ output_sink = <<>>
    /\ adv_output_sink = <<>>
    /\ emitted = 0
    /\ delivered = <<>>
    /\ draining = FALSE

\* The form as _apply_cfg_to_vars fills it from the default Config.
DefaultForm ==
    [click |-> "0.05", key |-> "0.05", between |-> "0.05", off |-> "465"]

\* The classifier not called, nothing logged, the form at its defaults.
AuxIdle ==
    /\ detections = <<>>
    /\ evaluated = NoResult
    /\ LogIdle
    /\ form = DefaultForm

\* The controller idle, no worker.
AppIdle ==
    /\ abort_event = FALSE
    /\ resume_event = FALSE
    /\ worker_alive = FALSE
    /\ current_task = "none"
    /\ hooks = FALSE
    /\ btn_assign = TRUE
    /\ btn_coord = TRUE
    /\ btn_resume = FALSE
    /\ tkq = <<>>
    /\ cfg = [click_delay |-> DefaultDelayMs, key_delay |-> DefaultDelayMs,
              nan |-> {}]
    /\ netids = 0
    /\ w = W0
    /\ g = G0

Init == AppIdle /\ AuxIdle

\* ------------------------------------------------- worker: shared parts

\* _connect_single_main_window is entered: deadline = now + timeout,
\* last_count = None.  ret is the place the caller continues at.
CallLocator(ww, ret) ==
    [ww EXCEPT !.pc = "loc", !.ret = ret, !.locLeft = LocPolls,
               !.last_count = -1, !.count = -1]

\* The places at which the worker is blocked in a wait: a delay, the
\* locator's poll sleep, a pause, the observation and re-check loops.
SleepPcs ==
    {"s_focus", "s_click1", "s_wiz", "s_click2", "s_click3", "s_type",
     "s_cls", "s_resume1", "s_refocus", "s_adv", "s_resume2", "s_key",
     "s_keywait"}

\* The two waits for the resume signal.
PausePcs == {"a_pause1", "a_pause2"}

AtWaitPoint ==
    \/ w.pc \in SleepPcs
    \/ w.pc = "loc_sleep"
    \/ w.pc = "loc" /\ w.locLeft < LocPolls
    \/ w.pc \in {"a_pause1", "a_pause2", "c_loop"}
    \/ w.pc = "a_obs" /\ w.obsLeft < ObsPolls
    \/ w.pc = "a_recheck" /\ w.recLeft < RecPolls

\* The locator has returned: its locals are gone.
LocDone(ww) ==
    [ww EXCEPT !.ret = "none", !.locLeft = 0, !.last_count = -1,
               !.count = -1]

\* ------------------------------------------------------------ controller

\* The settings form holds text: three delay entries and the offset
\* entries (followed as one).  The user's keystrokes are validated, the
\* texts _apply_cfg_to_vars puts there from a persisted file are not: such a
\* file may hold a negative delay, a NaN, or something that is no number.
DelayTexts == {"-0.05", "0", "0.05", "nan", "abc"}
OffsetTexts == {"0", "465", "-5", "abc"}

Forms ==
    [click : DelayTexts, key : DelayTexts, between : {"0.05", "nan", "-0.05"},
     off : OffsetTexts]

\* The entries a run of the workflow is followed with: a NaN delay makes
\* every delay of the run zero-length (max(0.0, nan) is 0.0 in
\* _sleep_or_abort), as the text "0" does.
FormDelays == {"-0.05", "0", "0.05"}
FormOffsets == {"0", "465"}

RunForms ==
    [click : FormDelays, key : FormDelays, between : FormDelays,
     off : FormOffsets]

\* float(text): ValueError for a text that is no number, NaN for "nan",
\* otherwise the value (kept in milliseconds).
Float(text) ==
    CASE text = "-0.05" ->
             [err |-> FALSE, nan |-> FALSE, ms |-> 0 - DefaultDelayMs]
      [] text = "0" -> [err |-> FALSE, nan |-> FALSE, ms |-> 0]
      [] text = "0.05" -> [err |-> FALSE, nan |-> FALSE, ms |-> DefaultDelayMs]
      [] text = "nan" -> [err |-> FALSE, nan |-> TRUE, ms |-> 0]
      [] OTHER -> [err |-> TRUE, nan |-> FALSE, ms |-> 0]

\* x < 0 on floats: every comparison with NaN is False.
Negative(x) == ~x.nan /\ x.ms < 0

\* str.isdigit() and int(s) on the offset texts (IntOf).
IsDigit(text) == text \in {"0", "465"}

IntOf(text) == IF text = "465" THEN 465 ELSE 0

\* parse_pos_int: ValueError unless the text is all digits and the value
\* is positive.
ParsePosInt(text) ==
    IF ~IsDigit(text) THEN [err |-> TRUE, v |-> 0]
    ELSE IF IntOf(text) <= 0 THEN [err |-> TRUE, v |-> 0]
    ELSE [err |-> FALSE, v |-> IntOf(text)]

\* The delays that are NaN in a Config.
NaNs(c, k, b) ==
    {n \in {"click_delay", "key_delay", "between_users_delay"} :
       \/ n = "click_delay" /\ c.nan
       \/ n = "key_delay" /\ k.nan
       \/ n = "between_users_delay" /\ b.nan}

\* _read_config_from_advanced: ValueError unless the delays parse and none
\* is negative and the offsets are positive whole numbers.
ConfigAccepted(c, k, b, off) ==
    /\ ~(c.err \/ k.err \/ b.err)
    /\ ~(Negative(c) \/ Negative(k) \/ Negative(b))
    /\ ~off.err

\* What reading the form f gives: the Config, or a refusal.
ReadConfigFrom(f) ==
    LET c == Float(f.click)
        k == Float(f.key)
        b == Float(f.between)
        off == ParsePosInt(f.off)
    IN IF ConfigAccepted(c, k, b, off)
       THEN [ok |-> TRUE, click_delay |-> c.ms, key_delay |-> k.ms,
             between_users_delay |-> b.ms, offset |-> off.v,
             nan |-> NaNs(c, k, b)]
       ELSE [ok |-> FALSE, click_delay |-> 0, key_delay |-> 0,
             between_users_delay |-> 0, offset |-> 0, nan |-> {}]

\* What reading the form gives, over all a run is followed with.
ReadConfig == {ReadConfigFrom(f) : f \in RunForms}

\* The Config a run is started with: the delays the run uses, and which of
\* the three delays are NaN (their value is then kept as 0).
ConfigOf(r) ==
    [click_delay |-> r.click_delay, key_delay |-> r.key_delay, nan |-> r.nan]

\* A _set_running_state that would leave the Resume button as it is.
SetRunningState_ResumeKept(running, task) ==
    /\ btn_assign' = ~running
    /\ btn_coord' = IF running /\ task = "coord" THEN TRUE ELSE ~running
    /\ btn_resume' = btn_resume

\* _set_running_state(running), run on the Tk thread.
SetRunningState(running, task) ==
    /\ btn_assign' = ~running
    /\ btn_coord' = IF running /\ task = "coord" THEN TRUE ELSE ~running
    /\ btn_resume' = IF ~running THEN FALSE ELSE btn_resume

\* The Tk main loop has run all but a few of the posted callbacks by the
\* time it delivers the next click on a start button.
QueueRoom == Len(tkq) < MaxTkq

\* A start handler that would not look for a live worker.
WorkerBusy_Ignored == FALSE

\* if self.worker_thread and self.worker_thread.is_alive(): the guard of
\* both start handlers.
WorkerBusy == worker_alive

\* threading.Event.clear() on a flag; a clear that would leave it as it is.
EventClear_Kept(flag) == flag

EventClear(flag) == FALSE

\* A start that would leave the resume hooks as they are.
InstallHooks_Skipped(installed) == installed

\* _RESUME_HOOKS = {...}: the hooks are installed.
InstallHooks(installed) == TRUE

\* App.on_assign_access: rejected while a worker is alive or when the
\* settings are refused; otherwise clears both events, installs the resume
\* hooks and starts the worker.  reads: what _read_config_from_advanced can
\* give for the content of the form.
AssignAccess(reads) ==
    /\ btn_assign
    /\ QueueRoom
    /\ IF WorkerBusy
       THEN UNCHANGED vars
       ELSE \E n \in 0..MaxIds, r \in reads :
              IF ~r.ok
              THEN UNCHANGED vars
              ELSE /\ cfg' = ConfigOf(r)
                   /\ netids' = n
                   /\ abort_event' = EventClear(abort_event)
                   /\ resume_event' = EventClear(resume_event)
                   /\ current_task' = "assign"
                   /\ SetRunningState(TRUE, "assign")
                   /\ hooks' = InstallHooks(hooks)
                   /\ worker_alive' = TRUE
                   /\ w' = [W0 EXCEPT !.pc = "a_start"]
                   /\ g' = [G0 EXCEPT !.task = "assign",
                                       !.stale = abort_event]
                   /\ UNCHANGED <<tkq, aux>>

OnAssignAccess == AssignAccess(ReadConfig)

\* App.on_coord_check: the same button stops a running coordinate probe.
CoordCheck(reads) ==
    /\ btn_coord
    /\ QueueRoom
    /\ IF WorkerBusy
       THEN IF current_task = "coord"
            THEN /\ abort_event' = TRUE
                 /\ g' = [g EXCEPT !.abortAtWait =
                                     IF abort_event THEN @ ELSE AtWaitPoint,
                                   !.pressed = TRUE]
                 /\ UNCHANGED <<aux, resume_event, worker_alive, current_task,
                                hooks, btn_assign, btn_coord, btn_resume,
                                tkq, cfg, netids, w>>
            ELSE UNCHANGED vars
       ELSE \E r \in reads :
              IF ~r.ok
              THEN UNCHANGED vars
              ELSE /\ cfg' = ConfigOf(r)
                   /\ abort_event' = EventClear(abort_event)
                   /\ current_task' = "coord"
                   /\ SetRunningState(TRUE, "coord")
                   /\ worker_alive' = TRUE
                   /\ w' = CallLocator(W0, "c_ready")
                   /\ g' = [G0 EXCEPT !.task = "coord",
                                       !.stale = abort_event]
                   /\ UNCHANGED <<aux, resume_event, hooks, tkq, netids>>

OnCoordCheck == CoordCheck(ReadConfig)

\* An ABORT that would set the resume flag only.
OnAbort_ResumeOnly ==
    /\ abort_event' = abort_event
    /\ resume_event' = TRUE
    /\ g' = [g EXCEPT !.abortAtWait =
                        IF abort_event THEN @ ELSE worker_alive /\ AtWaitPoint,
                      !.pressed = @ \/ worker_alive, !.sig = TRUE,
                      !.inPause = @ \/ (worker_alive /\ w.pc \in PausePcs)]
    /\ UNCHANGED <<aux, worker_alive, current_task, hooks, btn_assign,
                   btn_coord, btn_resume, tkq, cfg, netids, w>>

\* App.on_abort: sets the cancellation flag, then the resume flag.
OnAbort ==
    /\ abort_event' = TRUE
    /\ resume_event' = TRUE
    /\ g' = [g EXCEPT !.abortAtWait =
                        IF abort_event THEN @ ELSE worker_alive /\ AtWaitPoint,
                      !.pressed = @ \/ worker_alive, !.sig = TRUE,
                      !.inPause = @ \/ (worker_alive /\ w.pc \in PausePcs)]
    /\ UNCHANGED <<aux, worker_alive, current_task, hooks, btn_assign,
                   btn_coord, btn_resume, tkq, cfg, netids, w>>

\* App.on_resume: the RESUME button can be pressed only while enabled.
OnResume ==
    /\ btn_resume
    /\ resume_event' = TRUE
    /\ btn_resume' = FALSE
    /\ g' = [g EXCEPT !.resumed = TRUE, !.sig = TRUE]
    /\ UNCHANGED <<aux, abort_event, worker_alive, current_task, hooks,
                   btn_assign, btn_coord, tkq, cfg, netids, w>>

\* The Tk main loop runs the oldest callback posted with self.after(0, ...):
\* _set_resume_state(True/False) or _set_running_state(False).
TkAfter ==
    /\ tkq # <<>>
    /\ tkq' = Tail(tkq)
    /\ CASE Head(tkq) = "enable" ->
              /\ btn_resume' = TRUE
              /\ UNCHANGED <<btn_assign, btn_coord>>
         [] Head(tkq) = "disable" ->
              /\ btn_resume' = FALSE
              /\ UNCHANGED <<btn_assign, btn_coord>>
         [] OTHER -> SetRunningState(FALSE, current_task)
    /\ UNCHANGED <<aux, abort_event, resume_event, worker_alive, current_task,
                   hooks, cfg, netids, w, g>>

\* ----------------------------------------------------------------- worker

\* What the worker's latest step did to the target application: a window
\* operation (lookup, wait, set_focus, rectangle, window count) and at most
\* one injection ("click", "key:<name>", "text").  Q is the observation
\* before the step has done anything.
Q == [g EXCEPT !.win = FALSE, !.inj = "none", !.ref = FALSE]

\* The step used a window reference it holds (main_win32, wizard_window):
\* wait, set_focus, rectangle, click_input.
UsedRef(gg) == [gg EXCEPT !.ref = TRUE]

Did(gg, win, inj) ==
    [gg EXCEPT !.win = win, !.inj = inj,
               !.opDone = @ \/ win \/ inj # "none"]

\* n lines passed to the run's log callback.
Logged(gg, n) == [gg EXCEPT !.nlog = Min2(@ + n, LogCap)]

\* The environment left the happy path (a window not resolved at once, the
\* wizard late, a popup, a failing call).  The pauses and the
\* multiple-subjects screens of a run are counted on the happy path only.
NotNice(gg) ==
    [gg EXCEPT !.niceEnv = FALSE, !.onlySingle = FALSE, !.pauses = 0,
               !.multi = 0]

\* raise AbortRequested() / raise of any other exception out of the run.
Aborted(ww) == [ww EXCEPT !.pc = "x_aborted"]
Failed(ww) == [ww EXCEPT !.pc = "x_failed"]
Err(gg, kind) == [gg EXCEPT !.err = kind]

\* A worker step that touches none of the controller's state.
Step(ww, gg) == w' = ww /\ g' = gg /\ UNCHANGED ctl

\* _sleep_or_abort: end_time = now + max(0, seconds); the loop body runs
\* once per polling tick of at most TickMs.
SleepTicks(ms) ==
    IF Max2(0, ms) = 0 THEN {0}
    ELSE 1..Min2(MaxTicks, (ms + TickMs - 1) \div TickMs)

\* The loop of _sleep_or_abort is entered with n ticks ahead; with none the
\* call returns at once (the flag is not looked at).
GoSleep(ww, n, at, next) ==
    [ww EXCEPT !.pc = IF n = 0 THEN next ELSE at, !.sleepLeft = n]

\* The keys of the fixed sequence in the single_user branch (921-961).
KeySeq ==
    <<"tab", "enter", "enter", "tab", "tab", "tab", "tab", "enter", "enter",
      "enter", "enter">>

\* A second branch that would leave out the Enter for the popup.
KeySeqElse_NoPopupEnter ==
    <<"tab", "enter", "tab", "tab", "tab", "tab", "enter", "enter", "enter",
      "enter", "enter">>

\* The keys of the fixed sequence in the other branch (964-1007).
KeySeqElse ==
    <<"tab", "enter", "enter", "tab", "tab", "tab", "tab", "enter", "enter",
      "enter", "enter">>

\* if ocr_status == "single_user": ... else: ...
KeysOf(status) == IF status = "single_user" THEN KeySeq ELSE KeySeqElse

\* Where the run goes on after key number k and its delay.
KeyNext(k) ==
    IF k = Len(KeySeq) - 1 THEN "a_keywait"
    ELSE IF k = Len(KeySeq) THEN "a_done" ELSE "a_keys"

\* The statement after each delay.
SleepNext(ww) ==
    CASE ww.pc = "s_focus" -> "a_click_assign"
      [] ww.pc = "s_click1" -> "a_wiz"
      [] ww.pc = "s_wiz" -> "a_wiz_try"
      [] ww.pc = "s_click2" -> "a_click_field"
      [] ww.pc = "s_click3" -> "a_type"
      [] ww.pc = "s_type" -> "a_next"
      [] ww.pc = "s_cls" -> "a_cls_cap"
      [] ww.pc = "s_resume1" -> "a_refocus"
      [] ww.pc = "s_refocus" -> "a_adv"
      [] ww.pc = "s_adv" -> "a_obs"
      [] ww.pc = "s_resume2" -> "a_keys"
      [] ww.pc = "s_key" -> KeyNext(ww.k)
      [] ww.pc = "s_keywait" -> "a_keys"

\* One turn of the loop of _sleep_or_abort: the loop ends when the time is
\* up; otherwise the flag is checked and one tick slept.
SleepTurn(ww, abort) ==
    IF ww.sleepLeft = 0 THEN [ww EXCEPT !.pc = SleepNext(ww)]
    ELSE IF abort THEN Aborted(ww)
    ELSE [ww EXCEPT !.sleepLeft = @ - 1]

WSleep ==
    /\ w.pc \in SleepPcs
    /\ Step(SleepTurn(w, abort_event), Q)

\* -------------------------------------------------------- window locator

\* A locator that would take one more poll after its deadline.
LocDeadlinePassed_Late(ww) == ww.locLeft < 0

\* while time.time() < deadline: the deadline has passed.
LocDeadlinePassed(ww) == ww.locLeft = 0

\* A locator that would settle for the first of several matching windows.
LocAccepts_Several(count) == count >= 1

\* if count == 1: connect by handle and return.
LocAccepts(count) == count = 1

\* A locator that would report its count at every poll.
LocLogs_EveryPoll(count, last_count) == TRUE

\* if count != last_count: one state-change message.
LocLogs(count, last_count) == count # last_count

\* The counts reported by the messages of the locator call in progress:
\* one more when the poll logs, none once the call has returned or raised.
LocSaid(gg, count, last_count) ==
    IF LocLogs(count, last_count)
    THEN [Logged(gg, 1) EXCEPT !.loc_msgs = Append(@, count)]
    ELSE gg
LocOver(gg) == [gg EXCEPT !.loc_msgs = <<>>]

\* if count > 1: press Enter to clear a stale dialog.
LocAcknowledges(count) == count > 1

\* One poll of _connect_single_main_window.  found is the number of windows
\* find_elements returns, or -1 when the lookup (or the connect) raises,
\* which the loop swallows.  Every poll ends in time.sleep(0.1).
WLocPoll ==
    /\ w.pc = "loc"
    /\ IF LocDeadlinePassed(w)
       THEN Step(Failed(w), LocOver(Err(Q, "locator_timeout")))
       ELSE IF abort_event
       THEN Step(Aborted(w), LocOver(Q))
       ELSE \E found \in -1..MaxMatch :
              IF found = -1
              THEN Step([w EXCEPT !.locLeft = @ - 1],
                        NotNice(Did(Q, TRUE, "none")))
              ELSE IF LocAccepts(found)
              THEN Step([w EXCEPT !.pc = w.ret, !.count = found],
                        LocOver(Did(Q, TRUE, "none")))
              ELSE \E n \in IF LocAcknowledges(found)
                            THEN SleepTicks(cfg.key_delay) ELSE {0} :
                     Step([GoSleep(w, n, "loc_sleep", "loc") EXCEPT
                              !.count = found,
                              !.last_count = found,
                              !.locLeft = @ - 1],
                          NotNice(LocSaid(
                              Did(Q, TRUE,
                                  IF LocAcknowledges(found)
                                  THEN "key:enter" ELSE "none"),
                              found, w.last_count)))

\* The delay after the acknowledgement keystroke sits inside the try block:
\* an AbortRequested it raises is swallowed by `except Exception: pass`.
WLocSleep ==
    /\ w.pc = "loc_sleep"
    /\ Step(IF w.sleepLeft = 0 \/ abort_event
            THEN [w EXCEPT !.pc = "loc"]
            ELSE [w EXCEPT !.sleepLeft = @ - 1], Q)

\* -------------------------------------------------- run_assign_access

\* A run that would not look at the list before it starts.
EmptyRun_Unchecked(n) == FALSE

\* if not netids: log and return.
EmptyRun(n) == n = 0

\* Entry of run_assign_access up to the first locator call.
WStart ==
    /\ w.pc = "a_start"
    /\ IF EmptyRun(netids)
       THEN Step([w EXCEPT !.pc = "x_returned"],
                 [Logged(Q, 1) EXCEPT !.final = "no_netids"])
       ELSE Step(CallLocator(w, "a_ready0"), Logged(Q, 2))

\* main_win32.wait("ready"), window_text, _get_pid_for_hwnd: any of them
\* may raise, which ends the run.
WReady0 ==
    /\ w.pc = "a_ready0"
    /\ \E ok \in BOOLEAN :
         IF ok
         THEN Step([LocDone(w) EXCEPT !.pc = "a_loop"],
                   UsedRef(Logged(Did(Q, TRUE, "none"), 1)))
         ELSE Step(Failed(w),
                   UsedRef(Err(NotNice(Did(Q, TRUE, "none")), "other")))

\* A record loop that would stop after its first record.
RecordsLeft_FirstOnly(idx, n) == idx < Min2(n, 1)

\* for netid in netids: idx records are behind, is there a next one.
RecordsLeft(idx, n) == idx < n

\* Head of the record loop; after the last record the three closing lines.
WLoop ==
    /\ w.pc = "a_loop"
    /\ IF ~RecordsLeft(w.idx, netids)
       THEN Step([w EXCEPT !.pc = "x_returned"],
                 [Logged(Q, 3) EXCEPT !.final = "all_processed",
                                      !.total = w.processed_count])
       ELSE IF abort_event
       THEN Step(Aborted(w), Q)
       ELSE Step(CallLocator(w, "a_ready"), Q)

\* wait("ready"), "Processing <id>", set_focus, then the 0.2 s delay.
WReady ==
    /\ w.pc = "a_ready"
    /\ \E ok \in BOOLEAN, n \in SleepTicks(FocusMs) :
         IF ok
         THEN Step(GoSleep(LocDone(w), n, "s_focus", "a_click_assign"),
                   UsedRef(Logged(Did(Q, TRUE, "none"), 1)))
         ELSE Step(Failed(w),
                   UsedRef(Err(NotNice(Did(Q, TRUE, "none")), "other")))

\* click_main: the flag is checked first; then the rectangle is read, the
\* action logged and the click injected (click_input may raise).  pre is
\* the number of lines logged before the call.
ClickMain(at, pre, sleepAt, next) ==
    /\ w.pc = at
    /\ IF abort_event
       THEN Step(Aborted(w), Logged(Q, pre))
       ELSE \E ok \in BOOLEAN, n \in SleepTicks(cfg.click_delay) :
              IF ok
              THEN Step(GoSleep(w, n, sleepAt, next),
                        UsedRef(Logged(Did(Q, TRUE, "click"), pre + 1)))
              ELSE Step(Failed(w),
                        UsedRef(Err(NotNice(Logged(Did(Q, TRUE, "none"),
                                                   pre + 1)), "click")))

WClickAssign == ClickMain("a_click_assign", 3, "s_click1", "a_wiz")
WClickTab == ClickMain("a_click_tab", 1, "s_click2", "a_click_field")
WClickField == ClickMain("a_click_field", 1, "s_click3", "a_type")

\* "Waiting for wizard window..."; the attempts start.
WWiz ==
    /\ w.pc = "a_wiz"
    /\ Step([w EXCEPT !.pc = "a_wiz_try", !.attempt = 0], Logged(Q, 1))

\* A wait for the wizard that would go on without a window.
WizardMissing_Ignored(wizard_window) == FALSE

\* if wizard_window is None: raise RuntimeError.
WizardMissing(wizard_window) == ~wizard_window

\* One attempt of `for attempt in range(15)`.  found: connect, top_window
\* and rectangle succeed, and the loop is left.  Otherwise the attempt
\* raises and is followed by the 1 s delay; seen tells whether top_window
\* had returned (wizard_window is assigned) before rectangle raised.  After
\* the last attempt the run raises RuntimeError if wizard_window is still
\* None, and goes on with the window it holds otherwise.
WWizTry ==
    /\ w.pc = "a_wiz_try"
    /\ IF w.attempt = WizardAttempts
       THEN IF WizardMissing(w.wizard_window)
            THEN Step(Failed(w), Err(Q, "wizard_timeout"))
            ELSE Step([w EXCEPT !.pc = "a_click_tab", !.attempt = 0,
                                !.wizard_window = FALSE], NotNice(Q))
       ELSE IF abort_event
       THEN Step(Aborted(w), Q)
       ELSE \E found \in BOOLEAN, seen \in BOOLEAN,
               n \in SleepTicks(WizardRetryMs) :
              IF found
              THEN /\ seen
                   /\ Step([w EXCEPT !.pc = "a_click_tab", !.attempt = 0,
                                     !.wizard_window = FALSE],
                           Logged(Did(Q, TRUE, "none"), 1))
              ELSE Step([GoSleep(w, n, "s_wiz", "a_wiz_try") EXCEPT
                            !.attempt = @ + 1,
                            !.wizard_window = @ \/ seen],
                        NotNice(Did(Q, TRUE, "none")))

\* keyboard.write(netid): the text is typed without a look at the flag.
WType ==
    /\ w.pc = "a_type"
    /\ \E n \in SleepTicks(cfg.key_delay) :
         Step(GoSleep(w, n, "s_type", "a_next"),
              [Did(Q, FALSE, "text") EXCEPT !.typed = @ + 1])

\* press(keys): AbortRequested if the flag is set, else the key is injected
\* (one action-log line).  The observation keeps the keys injected for the
\* record since the classification was made (its keys field).
Press(ww, gg, key, abort) ==
    IF abort THEN <<Aborted(ww), gg>>
    ELSE <<ww, [Logged(Did(gg, FALSE, "key:" \o key), 1) EXCEPT
                  !.keys = Append(@, key)]>>

\* "Next ... via Enter": set_focus on the wizard (failure swallowed), then
\* press('enter'); the classification loop starts with title_missing.
WNext ==
    /\ w.pc = "a_next"
    /\ LET r == Press([w EXCEPT !.pc = "a_cls_top",
                                !.ocr_status = "title_missing"],
                      UsedRef(Logged(Did(Q, TRUE, "none"), 1)), "enter",
                      abort_event)
       IN Step(r[1], r[2])

\* A loop top that would not look at the flag.
LoopTopRaises_Never(abort) == FALSE

\* while True: if abort_event.is_set(): raise AbortRequested().
LoopTopRaises(abort) == abort

\* Top of the ClassifyScreen loop: flag check, one status line, then the
\* delay of click_delay * 10.
WClsTop ==
    /\ w.pc = "a_cls_top"
    /\ IF LoopTopRaises(abort_event)
       THEN Step(Aborted(w), Q)
       ELSE \E n \in SleepTicks(cfg.click_delay * 10) :
              Step(GoSleep(w, n, "s_cls", "a_cls_cap"), Logged(Q, 1))

\* What one capture-and-classify can give: the four results of
\* _evaluate_assignment_screen, "ocr_failed" when detection or evaluation
\* raises (caught), or "grab_failed" when the screen capture itself raises
\* (the capture is outside the try block).
Statuses ==
    {"title_missing", "label_missing", "single_user", "multiple_users",
     "ocr_failed"}

\* if ocr_status == "title_missing" / "label_missing": continue.
Indeterminate(status) == status \in {"title_missing", "label_missing"}

\* A branch that would pause on a single-subject screen as well.
NeedsPause_AlsoSingle(status) == status \in {"multiple_users", "single_user"}

\* if ocr_status == "multiple_users": pause for the user's choice.
NeedsPause(status) == status = "multiple_users"

\* A worker that would request a pause and not wait for its end.
RequestPause_NoWait(ww, gg, at) ==
    /\ resume_event' = EventClear(resume_event)
    /\ tkq' = Append(tkq, "enable")
    /\ w' = [ww EXCEPT !.pc = w.pc, !.acrossPause = TRUE]
    /\ g' = [gg EXCEPT !.resumed = FALSE, !.sig = FALSE,
                        !.outstanding = Min2(@ + 1, 2)]
    /\ UNCHANGED <<aux, abort_event, worker_alive, current_task, hooks,
                   btn_assign, btn_coord, btn_resume, cfg, netids>>

\* The wait of a pause has ended (the loop is left or raises).
PauseOver(gg) == [gg EXCEPT !.outstanding = @ - 1]

\* A pause is requested: resume_event.clear(), then enable_resume() posts
\* _set_resume_state(True) to the Tk thread.  outstanding counts the pauses
\* requested whose wait has not ended; sig tells whether a handler has set
\* the resume flag since the request.
RequestPause(ww, gg, at) ==
    /\ resume_event' = EventClear(resume_event)
    /\ tkq' = Append(tkq, "enable")
    /\ w' = [ww EXCEPT !.pc = at, !.acrossPause = TRUE]
    /\ g' = [gg EXCEPT !.resumed = FALSE, !.sig = FALSE,
                        !.outstanding = Min2(@ + 1, 2),
                        !.pauses = IF gg.niceEnv
                                   THEN Min2(@ + 1, MaxPauses) ELSE @]
    /\ UNCHANGED <<aux, abort_event, worker_alive, current_task, hooks,
                   btn_assign, btn_coord, btn_resume, cfg, netids>>

\* Capture, detection, evaluation and the branch on the status.
WClsCap ==
    /\ w.pc = "a_cls_cap"
    /\ \E out \in Statuses \cup {"grab_failed"} :
         IF out = "grab_failed"
         THEN Step(Failed(w), Err(NotNice(Q), "capture"))
         ELSE LET ww == [w EXCEPT !.ocr_status = out]
                  gg == [Q EXCEPT
                           !.keys = IF Indeterminate(out) THEN @ ELSE <<>>,
                           !.onlySingle = @ /\ out = "single_user",
                           !.multi = IF out = "multiple_users" /\ Q.niceEnv
                                     THEN Min2(@ + 1, MaxPauses) ELSE @]
              IN IF Indeterminate(out)
                 THEN Step([ww EXCEPT !.pc = "a_cls_top"], gg)
                 ELSE IF NeedsPause(out)
                 THEN IF ~hooks
                      THEN Step(Failed(ww), Err(gg, "hooks"))
                      ELSE RequestPause(ww, Logged(gg, 1), "a_pause1")
                 ELSE Step([ww EXCEPT !.pc = "a_refocus"], gg)

\* A pause that would not wait for the resume flag.
PauseLeaves_Unconditional(resume, abort) == TRUE

\* A pause that would give up when enough time has passed.
PauseRaises_TimedOut(resume, abort) == TRUE

\* while not resume_event.is_set(): if abort_event.is_set(): raise; sleep.
\* The loop is left when the resume flag is seen set; it raises when the
\* cancellation flag is seen first.  on_abort sets both flags, so after it
\* either can be what the worker sees.
PauseLeaves(resume, abort) == resume
PauseRaises(resume, abort) == abort

\* PausedForSubjectChoice: left by resume, the worker posts disable_resume,
\* re-focuses the wizard and waits 0.2 s.
WPause1 ==
    /\ w.pc = "a_pause1"
    /\ \/ /\ PauseLeaves(resume_event, abort_event)
          /\ \E n \in SleepTicks(ResumeFocusMs) :
               /\ w' = GoSleep(w, n, "s_resume1", "a_refocus")
               /\ g' = PauseOver(UsedRef(Did(Q, TRUE, "none")))
               /\ tkq' = Append(tkq, "disable")
               /\ UNCHANGED <<aux, abort_event, resume_event, worker_alive,
                              current_task, hooks, btn_assign, btn_coord,
                              btn_resume, cfg, netids>>
       \/ /\ PauseRaises(resume_event, abort_event)
          /\ Step(Aborted(w), PauseOver(Q))

\* Focus back on the target before the advance, then 0.1 s.
WRefocus ==
    /\ w.pc = "a_refocus"
    /\ \E n \in SleepTicks(RefocusMs) :
         Step(GoSleep(w, n, "s_refocus", "a_adv"),
              UsedRef(Did(Q, TRUE, "none")))

\* An advance that would be sent again after a resumed pause.
SendsAdvance_Always(status) == TRUE

\* if ocr_status != "multiple_users": the advance Enter is sent.
SendsAdvance(status) == status # "multiple_users"

\* The advance key (unless the user sent it during the pause), the key
\* delay, and the start of the 1.5 s observation.
WAdvance ==
    /\ w.pc = "a_adv"
    /\ LET r == IF SendsAdvance(w.ocr_status)
                THEN Press(w, Logged(Q, 1), "enter", abort_event)
                ELSE <<w, Q>>
       IN IF r[1].pc = "x_aborted"
          THEN Step(r[1], r[2])
          ELSE \E n \in SleepTicks(cfg.key_delay) :
                 Step([GoSleep(r[1], n, "s_adv", "a_obs") EXCEPT
                          !.obsLeft = ObsPolls], r[2])

\* _count_visible_toplevel_windows_for_pid can report these counts.
WinCounts == 1..MaxWindows

\* An observation that would take the baseline itself for a popup.
PopupSeen_AtBaseline(c) == c >= BaselineWindows

\* if c > 2: return True (a validation popup).
PopupSeen(c) == c > BaselineWindows

\* A re-check that would take any count up to the baseline for "gone".
AtBaseline_OrFewer(c) == c <= BaselineWindows

\* == 2: the popup is gone.
AtBaseline(c) == c = BaselineWindows

\* One sample of popup_detected_after_enter; when the window has elapsed it
\* logs the counts and returns False, and the fixed key sequence follows.
\* max_count is the largest count sampled in the observation.
WObserve ==
    /\ w.pc = "a_obs"
    /\ IF w.obsLeft = 0
       THEN Step([w EXCEPT !.pc = "a_keys", !.k = 0],
                 [Logged(Q, 1) EXCEPT !.max_count = -1])
       ELSE IF abort_event
       THEN Step(Aborted(w), Q)
       ELSE \E c \in WinCounts :
              IF PopupSeen(c)
              THEN IF ~hooks
                   THEN Step(Failed([w EXCEPT !.c = c]),
                             Err(NotNice(Did(Q, TRUE, "none")), "hooks"))
                   ELSE Step([w EXCEPT !.pc = "a_corr", !.c = c,
                                       !.obsLeft = 0],
                             [NotNice(Did(Q, TRUE, "none")) EXCEPT
                                !.max_count = -1])
              ELSE Step([w EXCEPT !.c = c, !.obsLeft = @ - 1],
                        [Did(Q, TRUE, "none") EXCEPT
                           !.max_count = Max2(@, c)])

\* Top of the correction loop: flag check, a count for the message, the
\* PAUSED message, and the pause request.
WCorr ==
    /\ w.pc = "a_corr"
    /\ IF abort_event
       THEN Step(Aborted(w), Q)
       ELSE \E c \in WinCounts :
              RequestPause([w EXCEPT !.c = c],
                           Logged(Did(Q, TRUE, "none"), 1), "a_pause2")

\* PausedForCorrection: left by resume, the worker posts disable_resume and
\* starts the 15 s re-check.
WPause2 ==
    /\ w.pc = "a_pause2"
    /\ \/ /\ PauseLeaves(resume_event, abort_event)
          /\ w' = [w EXCEPT !.pc = "a_recheck", !.recLeft = RecPolls]
          /\ g' = PauseOver(Q)
          /\ tkq' = Append(tkq, "disable")
          /\ UNCHANGED <<aux, abort_event, resume_event, worker_alive,
                         current_task, hooks, btn_assign, btn_coord,
                         btn_resume, cfg, netids>>
       \/ /\ PauseRaises(resume_event, abort_event)
          /\ Step(Aborted(w), PauseOver(Q))

\* After the re-check loop the count is read once more: at the baseline the
\* wizard is re-focused and the run goes on (0.2 s later); otherwise the
\* correction loop pauses again.
RecheckEnd(ww, gg, c, n) ==
    IF AtBaseline(c)
    THEN Step([GoSleep(ww, n, "s_resume2", "a_keys") EXCEPT
                  !.c = c, !.k = 0, !.recLeft = 0],
              UsedRef(Did(gg, TRUE, "none")))
    ELSE Step([ww EXCEPT !.pc = "a_corr", !.c = c, !.recLeft = 0],
              Did(gg, TRUE, "none"))

\* One poll of the re-check loop (flag check, count, 0.1 s) or its end.
WRecheck ==
    /\ w.pc = "a_recheck"
    /\ IF w.recLeft = 0
       THEN \E c \in WinCounts, n \in SleepTicks(ResumeFocusMs) :
              RecheckEnd(w, Q, c, n)
       ELSE IF abort_event
       THEN Step(Aborted(w), Q)
       ELSE \E c1 \in WinCounts :
              IF AtBaseline(c1)
              THEN \E c \in WinCounts, n \in SleepTicks(ResumeFocusMs) :
                     RecheckEnd(w, Q, c, n)
              ELSE Step([w EXCEPT !.c = c1, !.recLeft = @ - 1],
                        Did(Q, TRUE, "none"))

\* The single_user branch ends with a key delay after its last key; the
\* other branch does not.
TrailingDelay(status) == status = "single_user"

\* One key of the fixed sequence: one log line (as the source prints
\* before most keys), press(key), then the key delay.
WKeys ==
    /\ w.pc = "a_keys"
    /\ LET k == w.k + 1
           r == Press([w EXCEPT !.k = k, !.c = -1],
                      Logged(Q, 1), KeysOf(w.ocr_status)[k], abort_event)
       IN IF r[1].pc = "x_aborted"
          THEN Step(r[1], r[2])
          ELSE IF k = Len(KeySeq) /\ ~TrailingDelay(w.ocr_status)
          THEN Step([r[1] EXCEPT !.pc = "a_done"], r[2])
          ELSE \E n \in SleepTicks(cfg.key_delay) :
                 Step(GoSleep(r[1], n, "s_key", KeyNext(k)), r[2])

\* "Waiting (key_delay * 10)" before the last key.
WKeyWait ==
    /\ w.pc = "a_keywait"
    /\ \E n \in SleepTicks(cfg.key_delay * 10) :
         Step(GoSleep(w, n, "s_keywait", "a_keys"), Logged(Q, 1))

\* A counter that would miss a completed record.
Counted_Missed(processed_count) == processed_count

\* processed_count += 1.
Counted(processed_count) == processed_count + 1

\* "Completed <id>"; processed_count += 1; the loop takes the next record.
\* completed is the number of "Completed" lines of the run.
WDone ==
    /\ w.pc = "a_done"
    /\ Step([w EXCEPT !.pc = "a_loop", !.idx = @ + 1,
                      !.processed_count = Counted(@), !.k = 0,
                      !.ocr_status = "title_missing", !.acrossPause = FALSE],
            [Logged(Q, 1) EXCEPT !.keys = <<>>, !.completed = @ + 1])

\* --------------------------------------------------------- run_coord_check

\* wait("ready") and rectangle(): either may raise.
WCoordReady ==
    /\ w.pc = "c_ready"
    /\ \E ok \in BOOLEAN :
         IF ok
         THEN Step([LocDone(w) EXCEPT !.pc = "c_loop"],
                   UsedRef(Did(Q, TRUE, "none")))
         ELSE Step(Failed(w),
                   UsedRef(Err(NotNice(Did(Q, TRUE, "none")), "other")))

\* while not abort_event.is_set(): read the cursor, log a changed line,
\* sleep 0.05.  The loop ends by returning, not by raising.
WCoordLoop ==
    /\ w.pc = "c_loop"
    /\ IF abort_event
       THEN Step([w EXCEPT !.pc = "x_returned"], Q)
       ELSE \E out \in {"same", "moved", "oserror"} :
              IF out = "oserror"
              THEN Step(Failed(w), Err(NotNice(Q), "other"))
              ELSE Step(w, Logged(Q, IF out = "moved" THEN 1 ELSE 0))

\* ------------------------------------------------ the worker's wrapper

\* What the wrapper logs for each way the run function can end.
ReportOf(pc, task) ==
    IF pc = "x_returned" THEN "returned"
    ELSE IF pc = "x_aborted"
    THEN IF task = "assign" THEN "stopped" ELSE "silent"
    ELSE "error"

\* except AbortRequested / except Exception / finally of worker(): the
\* terminal line, then (assign only) the hooks are cleared, current_task is
\* cleared, _set_running_state(False) is posted and the thread ends.
WExit ==
    /\ w.pc \in {"x_returned", "x_aborted", "x_failed"}
    /\ g' = [Q EXCEPT !.report = ReportOf(w.pc, current_task)]
    /\ w' = [W0 EXCEPT !.processed_count = w.processed_count]
    /\ hooks' = IF current_task = "assign" THEN FALSE ELSE hooks
    /\ current_task' = "none"
    /\ tkq' = Append(tkq, "idle")
    /\ worker_alive' = FALSE
    /\ UNCHANGED <<aux, abort_event, resume_event, btn_assign, btn_coord,
                   btn_resume, cfg, netids>>

\* ------------------------------------------- _evaluate_assignment_screen
\*
\* A detection (x_min, y_min, x_max, y_max, text, conf) is kept as its left
\* edge x, top edge y, bottom edge yb, what its text matches (kind: "title"
\* for _is_title, "last" / "first" for the label phrases, "other") and the
\* number of words of the text.  x_max and conf are not read by the
\* function.

\* The places (x_min, y_min) detections are put at.
Spots ==
    {<<50, 0>>, <<100, 50>>, <<100, 100>>, <<50, 100>>, <<250, 100>>,
     <<100, 200>>}

\* The texts: a title, the two labels, and other text of some words.
Texts ==
    {[kind |-> "title", words |-> 4], [kind |-> "last", words |-> 2],
     [kind |-> "first", words |-> 2]}
    \cup {[kind |-> "other", words |-> n] : n \in 2..MaxWords}

Dets ==
    {[x |-> p[1], y |-> p[2], yb |-> p[2] + BoxH, kind |-> t.kind,
      words |-> t.words] : p \in Spots, t \in Texts}

\* The arguments of n detections the classifier is followed on.
DetLists(n) == [1..n -> Dets]

\* _is_title(text), _is_label(text, kind).
IsTitle(d) == d.kind = "title"
IsLabel(d, phrase) == d.kind = phrase

\* Index of the first element of s of the given kind, 0 when there is none
\* (for ... in s: if ...: break).
FirstOf(s, kind) ==
    LET I == {i \in DOMAIN s : s[i].kind = kind}
    IN IF I = {} THEN 0 ELSE CHOOSE i \in I : \A j \in I : i <= j

\* list.sort(key=lambda d: d[1]): by top edge, equal keys keep their order.
RECURSIVE SortByTop(_)
SortByTop(s) ==
    IF s = <<>> THEN <<>>
    ELSE LET n == Len(s)
             e == s[n]
             r == SortByTop(SubSeq(s, 1, n - 1))
             Keep(d) == d.y <= e.y
             Move(d) == d.y > e.y
         IN SelectSeq(r, Keep) \o <<e>> \o SelectSeq(r, Move)

\* below_title: the detections whose top edge is below title_y, sorted.
BelowTitle(s, title_y) ==
    LET Below(d) == d.y > title_y
    IN SortByTop(SelectSeq(s, Below))

\* A choice that would take the topmost label phrase of either kind.
LabelOf_Topmost(below_title) ==
    LET I == {i \in DOMAIN below_title :
                 below_title[i].kind \in {"last", "first"}}
    IN IF I = {} THEN <<>>
       ELSE <<below_title[CHOOSE i \in I : \A j \in I : i <= j]>>

\* The label: the first "last name" of below_title, else the first
\* "first name"; <<>> when there is neither.
LabelOf(below_title) ==
    LET a == FirstOf(below_title, "last")
        b == FirstOf(below_title, "first")
    IN IF a # 0 THEN <<below_title[a]>>
       ELSE IF b # 0 THEN <<below_title[b]>> ELSE <<>>

\* A crop that would keep the detections left of the label.
Cropped_Nothing(s, label_x_min) == s

\* cropped_detections: d[0] >= label_x_min.
Cropped(s, label_x_min) ==
    LET Right(d) == d.x >= label_x_min
    IN SelectSeq(s, Right)

\* below: within the window under the label.
InBox(s, label_y, label_x_min) ==
    LET In(d) == /\ d.y > label_y
                 /\ d.y <= label_y + BelowPx + ShiftPx
                 /\ d.x <= label_x_min + RightPx
    IN SelectSeq(s, In)

\* sum(len(d[4].split()) for d in below).
RECURSIVE WordCount(_)
WordCount(s) == IF s = <<>> THEN 0 ELSE Head(s).words + WordCount(Tail(s))

\* A threshold that would take two words for a second user.
ManyWords_FromTwo(word_count) == word_count >= OneUserWords

\* word_count > 2.
ManyWords(word_count) == word_count > OneUserWords

\* _evaluate_assignment_screen(detections): (status, used, bounds); bounds
\* is <<>> for None.
EvaluateAssignmentScreen(s) ==
    LET t == FirstOf(s, "title")
    IN IF t = 0 THEN [status |-> "title_missing", used |-> <<>>,
                      bounds |-> <<>>]
       ELSE LET lab == LabelOf(BelowTitle(s, s[t].yb))
            IN IF lab = <<>>
               THEN [status |-> "label_missing", used |-> <<>>,
                     bounds |-> <<>>]
               ELSE LET label_y == lab[1].yb
                        label_x_min == lab[1].x
                        below == InBox(Cropped(s, label_x_min), label_y,
                                       label_x_min)
                        bounds == [label_y |-> label_y + ShiftPx,
                                   label_x_min |-> label_x_min,
                                   y_max |-> label_y + BelowPx + ShiftPx,
                                   x_max |-> label_x_min + RightPx]
                    IN IF below = <<>>
                       THEN [status |-> "single_user", used |-> lab,
                             bounds |-> bounds]
                       ELSE [status |-> IF ManyWords(WordCount(below))
                                        THEN "multiple_users"
                                        ELSE "single_user",
                             used |-> lab \o below, bounds |-> bounds]

\* The classifier is called on its argument.
Evaluate ==
    /\ evaluated.status = "none"
    /\ evaluated' = EvaluateAssignmentScreen(detections)
    /\ UNCHANGED <<abort_event, resume_event, worker_alive, current_task,
                   hooks, btn_assign, btn_coord, btn_resume, tkq, cfg,
                   netids, w, g, detections, log_queue, output_sink,
                   adv_output_sink, emitted, delivered, draining, form>>

\* The classifier on every argument of up to MaxDets detections.
ClsInit ==
    /\ AppIdle
    /\ \E n \in 0..MaxDets : detections \in DetLists(n)
    /\ evaluated = NoResult
    /\ LogIdle
    /\ form = DefaultForm

ClsNext == Evaluate

ClsSpec == ClsInit /\ [][ClsNext]_vars

\* The classifier on titles and labels only, put above, at and below the
\* lower edge of a title at the top.
LabelSpots == {<<50, 0>>, <<100, BoxH>>, <<100, 50>>, <<50, 100>>}

LabelDets ==
    {[x |-> p[1], y |-> p[2], yb |-> p[2] + BoxH, kind |-> k, words |-> 2] :
        p \in LabelSpots, k \in {"title", "last", "first"}}

LabInit ==
    /\ AppIdle
    /\ \E n \in 0..MaxDets : detections \in [1..n -> LabelDets]
    /\ evaluated = NoResult
    /\ LogIdle
    /\ form = DefaultForm

LabSpec == LabInit /\ [][ClsNext]_vars

\* The classifier on a title, a label and other text put around the edges
\* of the window under a label at <<100, 50>>: just below the label's lower
\* edge, further down, and right of the window.
BoxSpots ==
    {<<50, 0>>, <<100, 50>>, <<100, 50 + BoxH + 1>>, <<100, 100>>,
     <<250, 100>>}

BoxDets ==
    {[x |-> p[1], y |-> p[2], yb |-> p[2] + BoxH, kind |-> t.kind,
      words |-> t.words] : p \in BoxSpots,
                           t \in {u \in Texts : u.kind # "first"}}

BoxInit ==
    /\ AppIdle
    /\ \E n \in 0..MaxDets : detections \in [1..n -> BoxDets]
    /\ evaluated = NoResult
    /\ LogIdle
    /\ form = DefaultForm

BoxSpec == BoxInit /\ [][ClsNext]_vars

\* ---------------------------------------------------------- the log queue
\* App._log and App._drain_log_queue followed on their own, for one run:
\* the worker thread and the controller's handlers put lines on
\* App.log_queue; the callback _drain_log_queue, armed again every 50 ms on
\* the controller's thread, takes them off and hands them to the sinks.
\* A line is [from, n]: the worker's lines are numbered as it emits them.

WorkerLine(n) == [from |-> "worker", n |-> n]

TkLine == [from |-> "tk", n |-> 0]

\* _log: self.log_queue.put((target, s)).
Put(q, target, s) == Append(q, [target |-> target, s |-> s])

\* queue.Queue.get_nowait: the oldest entry.
GetNowait_Newest(q) == q[Len(q)]

GetNowait(q) == Head(q)

\* The target of the run's log callback: lambda s: self._log("main", s) in
\* an assign run, lambda s: self._log("adv_set", s) in a coordinate check.
WorkerTarget == IF g.task = "coord" THEN "adv_set" ELSE "main"

\* TextSink.append and TextSink.set on the content of a sink.
SinkAppend(content, s) == Append(content, s)

SinkSet(content, s) == <<s>>

\* The lines of a sequence of queue entries.
RECURSIVE QueuedLines(_)
QueuedLines(q) ==
    IF q = <<>> THEN <<>> ELSE <<Head(q).s>> \o QueuedLines(Tail(q))

\* How many of the lines come from the controller's handlers.
RECURSIVE TkIn(_)
TkIn(lines) ==
    IF lines = <<>> THEN 0
    ELSE (IF Head(lines).from = "tk" THEN 1 ELSE 0) + TkIn(Tail(lines))

TkHeld ==
    TkIn(QueuedLines(log_queue)) + TkIn(output_sink) + TkIn(adv_output_sink)

LogFrame ==
    UNCHANGED <<abort_event, resume_event, hooks, btn_assign, btn_coord,
                btn_resume, tkq, cfg, netids, w, g, detections, evaluated,
                form>>

\* on_assign_access / on_coord_check as far as the log goes: the task is
\* set and the worker thread started; on_coord_check first clears the
\* advanced output with _log("adv_set", ""). One run is followed.
LogRunStarts(task) ==
    /\ ~WorkerBusy
    /\ g.task = "none"
    /\ ~draining
    /\ current_task' = task
    /\ worker_alive' = TRUE
    /\ g' = [g EXCEPT !.task = task]
    /\ log_queue' = IF task = "coord"
                    THEN Put(log_queue, "adv_set", TkLine)
                    ELSE log_queue
    /\ UNCHANGED <<output_sink, adv_output_sink, emitted, delivered,
                   draining, abort_event, resume_event, hooks, btn_assign,
                   btn_coord, btn_resume, tkq, cfg, netids, w, detections,
                   evaluated, form>>

\* The worker calls its log callback.
WorkerLog ==
    /\ worker_alive
    /\ emitted < MaxMsgs
    /\ emitted' = emitted + 1
    /\ log_queue' = Put(log_queue, WorkerTarget, WorkerLine(emitted + 1))
    /\ UNCHANGED <<worker_alive, current_task, output_sink, adv_output_sink,
                   delivered, draining>>
    /\ LogFrame

\* The worker's function returns or raises: current_task is reset and the
\* thread ends.
WorkerEnds ==
    /\ worker_alive
    /\ worker_alive' = FALSE
    /\ current_task' = "none"
    /\ UNCHANGED <<log_queue, output_sink, adv_output_sink, emitted,
                   delivered, draining>>
    /\ LogFrame

\* A handler of the controller logs a line (on_abort, on_resume, on_save,
\* on_restore_defaults): it runs on the controller's thread, so never
\* inside _drain_log_queue.
TkLog(target) ==
    /\ ~draining
    /\ TkHeld < MaxTkLines
    /\ log_queue' = Put(log_queue, target, TkLine)
    /\ UNCHANGED <<worker_alive, current_task, output_sink, adv_output_sink,
                   emitted, delivered, draining>>
    /\ LogFrame

\* The timer fires: _drain_log_queue enters its loop.
DrainBegins ==
    /\ ~draining
    /\ draining' = TRUE
    /\ UNCHANGED <<worker_alive, current_task, log_queue, output_sink,
                   adv_output_sink, emitted, delivered>>
    /\ LogFrame

\* One turn of the loop: get_nowait, then the sink by the target.
DrainOne ==
    /\ draining
    /\ log_queue # <<>>
    /\ LET e == GetNowait(log_queue)
       IN /\ log_queue' = Tail(log_queue)
          /\ output_sink' = IF e.target = "main"
                            THEN SinkAppend(output_sink, e.s)
                            ELSE output_sink
          /\ adv_output_sink' =
                 IF e.target = "adv"
                 THEN SinkAppend(adv_output_sink, e.s)
                 ELSE IF e.target = "adv_set"
                      THEN SinkSet(adv_output_sink, e.s)
                      ELSE adv_output_sink
          /\ delivered' = IF e.s.from = "worker"
                          THEN Append(delivered, e.s.n)
                          ELSE delivered
    /\ UNCHANGED <<worker_alive, current_task, emitted, draining>>
    /\ LogFrame

\* queue.Empty ends the loop; the callback is armed again.
DrainEnds ==
    /\ draining
    /\ log_queue = <<>>
    /\ draining' = FALSE
    /\ UNCHANGED <<worker_alive, current_task, log_queue, output_sink,
                   adv_output_sink, emitted, delivered>>
    /\ LogFrame

LogInit == AppIdle /\ AuxIdle

LogNext ==
    \/ \E task \in {"assign", "coord"} : LogRunStarts(task)
    \/ WorkerLog
    \/ WorkerEnds
    \/ \E target \in {"main", "adv"} : TkLog(target)
    \/ DrainBegins
    \/ DrainOne
    \/ DrainEnds

LogSpec == LogInit /\ [][LogNext]_vars

\* ------------------------------------------------------ the settings form
\* A start request followed on its own, over every content of the form:
\* the handlers read the entries as they are when the button is pressed.

CfgAssign == AssignAccess({ReadConfigFrom(form)})

CfgCoord == CoordCheck({ReadConfigFrom(form)})

CfgInit ==
    /\ AppIdle
    /\ detections = <<>>
    /\ evaluated = NoResult
    /\ LogIdle
    /\ form \in Forms

CfgNext == CfgAssign \/ CfgCoord

CfgSpec == CfgInit /\ [][CfgNext]_vars

\* ------------------------------------------------------- specification

\* The steps of the worker thread.
WorkerNext ==
    \/ WSleep
    \/ WLocPoll
    \/ WLocSleep
    \/ WStart
    \/ WReady0
    \/ WLoop
    \/ WReady
    \/ WClickAssign
    \/ WClickTab
    \/ WClickField
    \/ WWiz
    \/ WWizTry
    \/ WType
    \/ WNext
    \/ WClsTop
    \/ WClsCap
    \/ WPause1
    \/ WRefocus
    \/ WAdvance
    \/ WObserve
    \/ WCorr
    \/ WPause2
    \/ WRecheck
    \/ WKeys
    \/ WKeyWait
    \/ WDone
    \/ WCoordReady
    \/ WCoordLoop
    \/ WExit

Next ==
    \/ OnAssignAccess
    \/ OnCoordCheck
    \/ OnAbort
    \/ OnResume
    \/ TkAfter
    \/ WorkerNext

Spec == Init /\ [][Next]_vars

\* The worker is a thread of its own: while it has a step it takes one.
LiveSpec == Spec /\ WF_vars(WorkerNext)

\* The Tk main loop keeps running: a callback posted with self.after(0, ...)
\* is run in the end.
TkLiveSpec == Spec /\ WF_vars(TkAfter)

\* ------------------------------------------------------------ properties
\*
\* In the action formulas a step with w' # w is a step of the worker (the
\* controller changes w only when it starts a run, with the flag cleared).

\* C1: once the cancellation flag has been raised in a run of
\* run_assign_access, no later step of the worker performs a window
\* operation or injects input.  Stated for a flag raised while the worker
\* was blocked at a wait point (a delay, a poll sleep, a pause).
C1_NoOperationAfterAbort ==
    [][(g.task = "assign" /\ abort_event /\ g.abortAtWait /\ w' # w)
         => (~g'.win /\ g'.inj = "none")]_vars

\* C2: a run of run_assign_access whose cancellation flag was set while it
\* was at a wait point ends through AbortRequested and is reported as
\* "Stopped (ABORT)", never as an error or as a normal end.
C2_AbortAtWaitReportsStopped ==
    (g.task = "assign" /\ g.abortAtWait /\ g.report # "none")
        => g.report = "stopped"

\* C3: while the worker is in a pause (subject choice or correction) and
\* no resume signal has been given, it stays blocked: the only step it can
\* take is to raise AbortRequested, and it injects nothing.
C3_PausedInjectsNothing ==
    [][(w.pc \in {"a_pause1", "a_pause2"} /\ ~resume_event /\ w' # w)
         => (w'.pc = "x_aborted" /\ g'.inj = "none" /\ ~g'.win)]_vars

\* Both pauses of one record: the worker sits in the correction pause of a
\* record that also had a subject-choice pause, RESUME enabled, not pressed.
C3_Witness ==
    /\ w.pc = "a_pause2"
    /\ w.ocr_status = "multiple_users"
    /\ ~resume_event
    /\ ~abort_event
    /\ btn_resume

\* The places of the correction loop.
CorrPcs == {"a_corr", "a_pause2", "a_recheck"}

\* C4: a window count above 2 sampled after the identifier was submitted
\* takes the run into the correction loop; the loop is left towards the
\* fixed key sequence only with a count of exactly 2 just read; and the
\* observation ends into the key sequence only when no sample exceeded 2.
C4_CorrectionHoldsKeys ==
    [][/\ (w.pc = "a_obs" /\ w' # w /\ w'.c > BaselineWindows)
            => w'.pc = "a_corr"
       /\ (w.pc \in CorrPcs /\ w' # w /\ w'.pc \notin CorrPcs)
            => \/ w'.pc = "x_aborted"
               \/ w'.pc = "s_resume2" /\ w'.c = BaselineWindows
       /\ (w.pc = "a_obs" /\ w'.pc = "a_keys")
            => w'.c <= BaselineWindows
       /\ (w'.pc = "a_keys" /\ w'.k = 0 /\ w.pc # "a_keys")
            => w.pc \in {"a_obs", "s_resume2"}]_vars

\* A correction that was paused, resumed by the user and found the count
\* back at 2: the run is about to start the key sequence.
C4_Witness ==
    /\ w.pc = "s_resume2"
    /\ w.c = BaselineWindows
    /\ g.resumed
    /\ ~abort_event

\* C5: on the happy path (windows resolve at once, wizard on the first
\* attempt, no popup) the run has paused as often as it has classified a
\* screen as multiple-subjects, and the record of such a screen reaches
\* "Completed" only after a resume signal was given for its pause.
C5_PausesMatchMultiple ==
    g.niceEnv =>
        /\ g.pauses = g.multi
        /\ (w.pc = "a_done" /\ w.ocr_status = "multiple_users") => g.resumed

\* Two identifiers, only the second classified multiple-subjects: one
\* pause, and the run is finished.
C5_Witness ==
    /\ g.niceEnv
    /\ netids = 2
    /\ g.multi = 1
    /\ g.pauses = 1
    /\ g.resumed
    /\ g.final = "all_processed"
    /\ w.processed_count = 2

\* A run of run_assign_access has ended on the happy path with every
\* screen classified single-subject and the flag never raised.
HappySingleEnd ==
    /\ g.task = "assign"
    /\ g.report # "none"
    /\ g.niceEnv
    /\ g.onlySingle
    /\ ~abort_event

\* The worker of such a run still running.
HappySingleRunning ==
    /\ g.task = "assign"
    /\ worker_alive
    /\ g.niceEnv
    /\ g.onlySingle
    /\ ~abort_event

\* C6 as stated, for any list of n identifiers (n = 0 included): the happy
\* single-subject run ends normally with processed count n and the closing
\* "All users processed" line.
C6_AnyListAllProcessed ==
    HappySingleEnd =>
        /\ g.report = "returned"
        /\ g.final = "all_processed"
        /\ w.processed_count = netids

\* C6 for a non-empty list: the happy single-subject run is never blocked
\* while it runs, and it ends normally with processed count n and the
\* closing "All users processed" line.
C6_NonEmptyListAllProcessed ==
    /\ HappySingleRunning => ENABLED WorkerNext
    /\ (HappySingleEnd /\ netids > 0) =>
          /\ g.report = "returned"
          /\ g.final = "all_processed"
          /\ w.processed_count = netids

\* The scenario of two identifiers under the default configuration.
C6_Witness ==
    /\ HappySingleEnd
    /\ netids = 2
    /\ cfg.click_delay = DefaultDelayMs
    /\ cfg.key_delay = DefaultDelayMs
    /\ g.final = "all_processed"
    /\ w.processed_count = 2

\* C7: a run of run_assign_access on an empty list logs one line only (the
\* "No NetIDs provided" line), performs no window operation and injects
\* nothing, and returns; under every accepted configuration.
C7_EmptyListDoesNothing ==
    (g.task = "assign" /\ netids = 0) =>
        /\ ~g.opDone
        /\ g.nlog <= 1
        /\ g.report # "none" =>
             (g.nlog = 1 /\ g.final = "no_netids" /\ g.report = "returned")

\* An empty run has ended, here under zero delays.
C7_Witness ==
    /\ g.task = "assign"
    /\ netids = 0
    /\ g.report = "returned"
    /\ g.nlog = 1
    /\ cfg.click_delay = 0
    /\ cfg.key_delay = 0

\* C8: the locator returns to its caller only from a poll that found
\* exactly one matching window; a poll that found none or several keeps it
\* in its loop (or ends it by timeout or abort at a later turn).
C8_ReturnsOnlyOnSingleMatch ==
    [][(w.pc = "loc" /\ w' # w) =>
          /\ w'.pc = w.ret => w'.count = 1
          /\ w'.count # 1 => w'.pc \in {"loc", "loc_sleep", "x_failed",
                                        "x_aborted"}]_vars

\* The match counts 2, 2, 1: the locator has returned at its third poll.
C8_Witness ==
    /\ w.pc = w.ret
    /\ w.count = 1
    /\ w.last_count = 2
    /\ w.locLeft = LocPolls - 2

\* C9: when the deadline passes with no poll having found exactly one
\* window, the locator raises its timeout error and hands nothing back.
C9_TimeoutWithoutSingleMatch ==
    [][(w.pc = "loc" /\ w.locLeft = 0 /\ w' # w)
         => (w'.pc = "x_failed" /\ g'.err = "locator_timeout")]_vars

\* The locator has timed out with the count having stayed above one.
C9_Witness ==
    /\ w.pc = "x_failed"
    /\ g.err = "locator_timeout"
    /\ w.last_count = 2
    /\ w.locLeft = 0
    /\ ~abort_event

\* C10: a delay of the workflow that is in progress while the cancellation
\* flag is set ends by raising AbortRequested at its next turn.
C10_DelayRaisesOnAbort ==
    [][(w.pc \in SleepPcs /\ abort_event /\ w' # w)
         => w'.pc = "x_aborted"]_vars

\* C11: while a worker is alive no handler starts another one: the task,
\* the configuration and the identifier list of the active run stay as they
\* are, the worker's position is changed by the worker only, and the run
\* ends only by the worker's own exit.
C11_SingleActiveRun ==
    [][worker_alive =>
         /\ current_task' \in {current_task, "none"}
         /\ cfg' = cfg
         /\ netids' = netids
         /\ g'.task = g.task
         /\ (w'.pc \in {"a_start", "loc"} /\ w' # w) =>
               w.pc \in {"a_start", "a_loop", "loc", "loc_sleep"}
         /\ ~worker_alive' => w.pc \in {"x_returned", "x_aborted",
                                        "x_failed"}]_vars

\* A start button is enabled while a worker is alive (a late
\* _set_running_state(False) of an earlier run re-enabled it), so a start
\* request can arrive during the run.
C11_Witness ==
    /\ worker_alive
    /\ current_task = "assign"
    /\ btn_assign
    /\ btn_coord
    /\ w.pc \notin {"x_returned", "x_aborted", "x_failed"}

\* C12: the capture-and-classify step of ClassifyScreen never ends the run
\* by an exception: a failing capture or detection gives "ocr_failed" and
\* the record goes on without a pause.
C12_ClassifyFailureProceeds ==
    [][(w.pc = "a_cls_cap" /\ w' # w)
         => (w'.pc # "x_failed" /\ g'.err = "none")]_vars

\* C13: a run that ended by an exception after k records were completed
\* has reported the count k ("Total users processed: k").
C13_ErrorReportsProcessedCount ==
    (g.task = "assign" /\ g.report = "error" /\ w.processed_count >= 1)
        => g.total = w.processed_count

\* C14: every injection (click, key, typed text) is preceded by a look at
\* the cancellation flag: a worker step taken with the flag set injects
\* nothing.
C14_InjectionChecksAbort ==
    [][(g.task = "assign" /\ abort_event /\ w' # w) => g'.inj = "none"]_vars

\* The places of the three coordinate clicks.
ClickPcs == {"a_click_assign", "a_click_tab", "a_click_field"}

\* C15: a click that raises does not end the run: the run is not left
\* through the exception.
C15_ClickFailureKeepsRun ==
    [][(w.pc \in ClickPcs /\ w' # w) => w'.pc # "x_failed"]_vars

\* C16: no window reference is carried across a pause: once a pause of the
\* record has been resumed, no later step of the record uses a reference
\* that was resolved before the pause (the references are re-resolved for
\* the next record only).
C16_NoReferenceAcrossPause ==
    [][(w.acrossPause /\ g.resumed /\ w' # w) => ~g'.ref]_vars

\* The detections of s of one of the kinds.
OfKind(s, kinds) == {i \in DOMAIN s : s[i].kind \in kinds}

\* The detections of s in the search window under the label s[l]: not
\* left of the label, at most RightPx right of its left edge, below its
\* lower edge by at most BelowPx (+ ShiftPx).
InWindow(s, l) ==
    {i \in DOMAIN s : /\ s[i].x >= s[l].x
                      /\ s[i].x <= s[l].x + RightPx
                      /\ s[i].y > s[l].yb
                      /\ s[i].y <= s[l].yb + BelowPx + ShiftPx}

\* C17: with one title, one label below it and exactly one detection in
\* the search window under the label, the classification is single-subject
\* when that detection has at most 2 words and multiple-subjects when it
\* has 3 or more, in whichever order the detections are listed.
C17_WordCountDecides ==
    (evaluated.status # "none") =>
        \A t \in DOMAIN detections, l \in DOMAIN detections,
           d \in DOMAIN detections :
            (/\ OfKind(detections, {"title"}) = {t}
             /\ OfKind(detections, {"last", "first"}) = {l}
             /\ detections[l].y > detections[t].yb
             /\ InWindow(detections, l) = {d})
            => evaluated.status = IF detections[d].words <= 2
                                  THEN "single_user" ELSE "multiple_users"

\* Label first, a three-word detection in its window second, the title
\* last: classified multiple-subjects.
C17_Witness ==
    /\ Len(detections) = 3
    /\ detections[3].kind = "title"
    /\ detections[1].kind = "last"
    /\ detections[1].y > detections[3].yb
    /\ InWindow(detections, 1) = {2}
    /\ detections[2].words = 3
    /\ evaluated.status = "multiple_users"

\* C18: a detection left of the label's left edge does not contribute to
\* the word count: it is not among the detections the classification
\* names as used, and whatever its number of words the classification is
\* the same.
C18_LeftOfLabelNotCounted ==
    (evaluated.status \in {"single_user", "multiple_users"}) =>
        \A i \in DOMAIN detections :
            detections[i].x < evaluated.bounds.label_x_min =>
                /\ \A j \in DOMAIN evaluated.used :
                       evaluated.used[j] # detections[i]
                /\ \A n \in 0..(MaxWords + 1) :
                       EvaluateAssignmentScreen(
                           [detections EXCEPT ![i].words = n]).status
                       = evaluated.status

\* A three-word detection left of the label, at the height of the search
\* window, and the screen is classified single-subject.
C18_Witness ==
    /\ Len(detections) = 3
    /\ evaluated.status = "single_user"
    /\ detections[3].kind = "other"
    /\ detections[3].words = 3
    /\ detections[3].x < evaluated.bounds.label_x_min
    /\ detections[3].y > evaluated.bounds.label_y
    /\ detections[3].y <= evaluated.bounds.y_max

\* The worker's lines among the lines of a sequence, by their numbers.
RECURSIVE WorkerNumbers(_)
WorkerNumbers(lines) ==
    IF lines = <<>> THEN <<>>
    ELSE (IF Head(lines).from = "worker" THEN <<Head(lines).n>> ELSE <<>>)
         \o WorkerNumbers(Tail(lines))

\* C19: the worker's lines reach their sink in the order of emission, none
\* dropped, duplicated or reordered: the lines handed to the sink so far,
\* followed by those still on the queue, are exactly lines 1, 2, ... up to
\* the last one emitted; in an assign run they are the worker's lines of
\* the main output, in that order, and in a coordinate check, whose lines
\* each replace the advanced output, the one handed over last is the
\* worker's line shown there.
C19_LogOrderKept ==
    LET all == delivered \o WorkerNumbers(QueuedLines(log_queue))
    IN /\ Len(all) = emitted
       /\ \A i \in 1..emitted : all[i] = i
       /\ g.task = "assign" =>
              WorkerNumbers(output_sink) = delivered
       /\ (g.task = "coord" /\ delivered # <<>>) =>
              WorkerNumbers(adv_output_sink) =
                  <<delivered[Len(delivered)]>>

\* Two worker lines are in the main output with a line of a handler
\* between them, and a third is still on the queue.
C19_Witness ==
    /\ g.task = "assign"
    /\ output_sink = <<WorkerLine(1), TkLine, WorkerLine(2)>>
    /\ WorkerNumbers(QueuedLines(log_queue)) = <<3>>

\* C20: a blocked pause has no timeout: whenever the worker leaves a wait
\* for the resume signal, the resume flag is set and it goes on, or the
\* cancellation flag is set and the cancellation exception is raised;
\* while neither flag is set the worker has no step at all.
C20_PauseHasNoTimeout ==
    [][/\ (w.pc \in PausePcs /\ w' # w) =>
            \/ resume_event /\ w'.pc \notin PausePcs \cup {"x_aborted"}
            \/ abort_event /\ w'.pc = "x_aborted"
       /\ (w.pc \in PausePcs /\ ~resume_event /\ ~abort_event) =>
            ~ENABLED WorkerNext]_vars

\* The worker was blocked in the correction pause with neither flag set,
\* the user pressed RESUME, and the worker has left the wait.
C20_Witness ==
    /\ w.pc = "a_recheck"
    /\ w.recLeft = RecPolls
    /\ g.resumed
    /\ resume_event
    /\ ~abort_event

\* C21: the cancellation flag is clear at the start of every run, so a
\* stale abort never stops the new run: while a worker is alive the flag is
\* set only if the user asked for the stop during this run, and a run is
\* reported stopped only then.
C21_NoStaleAbort ==
    /\ (worker_alive /\ abort_event) => g.pressed
    /\ w.pc = "x_aborted" => g.pressed
    /\ g.report \in {"stopped", "silent"} => g.pressed

\* An assign run that was started while the flag of an earlier abort was
\* still set has processed its records and returned.
C21_Witness ==
    /\ g.task = "assign"
    /\ g.stale
    /\ ~g.pressed
    /\ g.report = "returned"
    /\ w.processed_count >= 1

\* A delay that is a number and at least zero.
NonNegative(x) == ~x.err /\ ~x.nan /\ x.ms >= 0

\* The form holds non-negative delays and a positive whole offset.
FormValid(f) ==
    /\ NonNegative(Float(f.click))
    /\ NonNegative(Float(f.key))
    /\ NonNegative(Float(f.between))
    /\ ~ParsePosInt(f.off).err

\* C22: every configuration a run is started with has non-negative delays
\* and strictly positive whole offsets, and a start request whose settings
\* violate this starts no worker: a worker is alive only if the form its
\* start request read is valid, and its Config holds no delay that is not
\* at least zero.
C22_StartedConfigValid ==
    worker_alive =>
        /\ FormValid(form)
        /\ cfg.click_delay >= 0
        /\ cfg.key_delay >= 0
        /\ cfg.nan = {}

\* The steps that end in a call of the delay primitive without a look at
\* the flag of their own: keyboard.write and the wait before the last key.
BareDelayPcs == {"a_type", "a_keywait"}

\* C23: every call of the delay primitive, also one of zero length,
\* observes the cancellation flag at least once before the workflow
\* continues: a call made while the flag is set does not return to the
\* workflow, the worker is held in the delay, whose next look at the flag
\* raises the cancellation.
C23_DelayObservesFlag ==
    [][(abort_event /\ w.pc \in BareDelayPcs /\ w' # w) =>
           w'.pc \in SleepPcs]_vars

\* C24: once the cancellation flag is set (it stays set while the worker
\* is alive: only a start handler clears it), the worker eventually
\* terminates, from every state of an assign run and of a coordinate check.
C24_AbortTerminates == (worker_alive /\ abort_event) ~> ~worker_alive

\* An assign run that was paused for a choice of subject has been stopped
\* by ABORT and its thread has ended.
C24_Witness ==
    /\ g.task = "assign"
    /\ g.pauses >= 1
    /\ g.pressed
    /\ g.report = "stopped"
    /\ ~worker_alive

\* The statuses with which the ClassifyScreen loop is left.
Definite == {"single_user", "multiple_users", "ocr_failed"}

\* C25: after the classification the first keys the engine injects for the
\* record are: for multiple-subjects (the pause resumed) the Tab that
\* starts the fixed sequence, with no Enter before it; for single-subject
\* and classification-failed exactly one Enter, then that Tab.  The fixed
\* sequence is reached only with these keys sent.
C25_AdvanceNotRepeated ==
    w.ocr_status \in Definite =>
        /\ w.ocr_status = "multiple_users" =>
               g.keys = <<>> \/ g.keys[1] = "tab"
        /\ w.ocr_status # "multiple_users" =>
               /\ Len(g.keys) >= 1 => g.keys[1] = "enter"
               /\ Len(g.keys) >= 2 => g.keys[2] = "tab"
               /\ w.pc \in {"a_keys", "s_key"} => Len(g.keys) >= 1

\* A multiple-subjects pause was resumed and the first key injected since
\* is the Tab of the fixed sequence.
C25_Witness ==
    /\ w.ocr_status = "multiple_users"
    /\ g.resumed
    /\ g.keys = <<"tab">>

\* The keys from the first Tab on.
RECURSIVE FromFirstTab(_)
FromFirstTab(keys) ==
    IF keys = <<>> THEN <<>>
    ELSE IF Head(keys) = "tab" THEN keys ELSE FromFirstTab(Tail(keys))

\* C26: after the divergence point the keys injected for a record are the
\* same for every classification outcome: Tab, Enter, Enter, Tab x4, Enter,
\* Enter, Enter, Enter; and after each of these keys but the last the
\* engine calls the delay with the configured key delay before the next.
C26_SameKeysEveryOutcome ==
    [][/\ (w.pc = "a_done" /\ w' # w) =>
            FromFirstTab(g.keys) =
                <<"tab", "enter", "enter", "tab", "tab", "tab", "tab",
                  "enter", "enter", "enter", "enter">>
       /\ (w.pc = "a_keys" /\ g'.inj # "none" /\ w'.k < 11) =>
            \/ /\ w'.pc = "s_key"
               /\ w'.sleepLeft \in SleepTicks(cfg.key_delay)
            \/ /\ 0 \in SleepTicks(cfg.key_delay)
               /\ w'.pc \in {"a_keys", "a_keywait"}
      ]_vars

\* A record classified classification-failed has had all its keys.
C26_Witness ==
    /\ w.pc = "a_done"
    /\ w.ocr_status = "ocr_failed"
    /\ Len(g.keys) = 12

\* The ClassifyScreen loop: its top, its delay, the capture and evaluation.
ClsPcs == {"a_cls_top", "s_cls", "a_cls_cap"}

\* C27: the ClassifyScreen loop is left only with a status of
\* single-subject, multiple-subjects or classification-failed, or by the
\* cancellation; inside the loop no key is injected, and a title-missing or
\* label-missing result leads back to the top of the loop, however many
\* there have been.
C27_LoopLeftOnlyWithStatus ==
    [][(w.pc \in ClsPcs /\ w' # w) =>
          /\ g'.inj = "none"
          /\ w'.pc \notin ClsPcs =>
                 w'.ocr_status \in Definite \/ w'.pc = "x_aborted"
          /\ (w.pc = "a_cls_cap" /\ Indeterminate(w'.ocr_status)
                /\ w'.pc # "x_failed") => w'.pc = "a_cls_top"]_vars

C30_SilentWhileZeroMatch ==
    [][(w.pc = "loc" /\ w' # w /\ w'.locLeft = w.locLeft - 1)
         => /\ w'.count = 0 =>
                   g'.loc_msgs = g.loc_msgs /\ g'.inj = "none"
            /\ g'.inj # "none" =>
                   g'.inj = "key:enter" /\ w'.count > 1]_vars

\* The detections of the given phrase whose top edge is strictly below the
\* lower edge of the title, the first title of the list.
BelowTheTitle(s, phrase) ==
    {i \in DOMAIN s :
        /\ s[i].kind = phrase
        /\ \E t \in OfKind(s, {"title"}) :
              /\ \A u \in OfKind(s, {"title"}) : t <= u
              /\ s[i].y > s[t].yb}

\* C31: the label is chosen among the detections strictly below the
\* title's lower edge only: it is the topmost of them with 'last name';
\* one with 'first name' is taken only when none has 'last name', and then
\* the topmost; label-missing is returned exactly when there is neither.
C31_LabelBelowTitlePreferred ==
    (evaluated.status \notin {"none", "title_missing"}) =>
        LET L == BelowTheTitle(detections, "last")
            F == BelowTheTitle(detections, "first")
            C == IF L # {} THEN L ELSE F
        IN /\ evaluated.status = "label_missing" <=> C = {}
           /\ C # {} =>
                 /\ \E i \in C : evaluated.used[1] = detections[i]
                 /\ \A i \in C : evaluated.used[1].y <= detections[i].y

\* A 'first name' lies higher than the 'last name', both below the title,
\* and the 'last name' is the label.
C31_Witness ==
    /\ Len(detections) = 3
    /\ detections[1].kind = "title"
    /\ detections[2].kind = "first"
    /\ detections[3].kind = "last"
    /\ detections[2].y > detections[1].yb
    /\ detections[3].y > detections[2].y
    /\ evaluated.status = "single_user"
    /\ evaluated.used[1] = detections[3]

\* C32: the region returned with a classification is the region used to
\* select the counted detections: a detection is among those counted (the
\* used ones after the label) exactly when its origin is inside the
\* returned region.
C32_ReturnedRegionIsCountedRegion ==
    (evaluated.status \in {"single_user", "multiple_users"}) =>
        \A i \in DOMAIN detections :
            (\E j \in 2..Len(evaluated.used) :
                 evaluated.used[j] = detections[i])
            <=> /\ detections[i].x >= evaluated.bounds.label_x_min
                /\ detections[i].x <= evaluated.bounds.x_max
                /\ detections[i].y > evaluated.bounds.label_y
                /\ detections[i].y <= evaluated.bounds.y_max

C34_InOrderOneAtATime ==
    /\ [](/\ w.processed_count = g.completed
          /\ w.pc # "idle" => w.idx = g.completed
          /\ g.typed \in {g.completed, g.completed + 1})
    /\ [][w'.idx # w.idx =>
            \/ w'.idx = w.idx + 1 /\ g'.completed = g.completed + 1
            \/ w'.pc = "idle"]_vars

\* The text of the second identifier is being typed, the first identifier
\* logged as completed.
C34_Witness ==
    /\ g.inj = "text"
    /\ w.idx = 1
    /\ g.completed = 1
    /\ g.typed = 2
    /\ w.processed_count = 1

\* The buttons of the idle controller: both start buttons enabled, Resume
\* disabled.
IdleButtons == btn_assign /\ btn_coord /\ ~btn_resume

\* C35: however the worker has ended, the controller gets back to idle:
\* with no worker alive the current task and the resume hooks are cleared;
\* once the posted callbacks have run the start buttons are enabled, Resume
\* is disabled and a press on the start button starts a new run; and the
\* buttons do get to that state after every end of a worker.
C35_ControllerReturnsToIdle ==
    /\ [](~worker_alive =>
            /\ w.pc = "idle"
            /\ current_task = "none"
            /\ ~hooks
            /\ tkq = <<>> =>
                  /\ IdleButtons
                  /\ ENABLED (OnAssignAccess /\ worker_alive'))
    /\ (~worker_alive ~> IdleButtons)

\* A run of run_assign_access has ended with an exception and its posted
\* callback has run: the controller is idle again.
C35_Witness ==
    /\ ~worker_alive
    /\ tkq = <<>>
    /\ g.task = "assign"
    /\ g.report = "error"
    /\ current_task = "none"
    /\ ~hooks
    /\ IdleButtons

\* C36: at most one pause is outstanding: the pauses requested in a run
\* and not yet left number one while the worker waits for the resume
\* signal and none otherwise, so that a pause is requested only when the
\* earlier ones have been left.
C36_OnePauseOutstanding ==
    /\ g.outstanding <= 1
    /\ g.outstanding = 1 <=> w.pc \in PausePcs

\* A correction pause is outstanding in a record whose subject-choice pause
\* has been left.
C36_Witness ==
    /\ w.pc = "a_pause2"
    /\ w.ocr_status = "multiple_users"
    /\ g.outstanding = 1
    /\ ~resume_event

\* C37: a pause is left by the resume flag only when the flag has been set
\* by a handler after that pause was requested, and, unless ABORT has been
\* pressed, by a press of Resume after that request: a signal given for an
\* earlier pause does not unblock a later one.
C37_ResumeSignalNotReused ==
    [][(w.pc \in PausePcs /\ w' # w /\ w'.pc # "x_aborted")
         => /\ resume_event
            /\ g.sig
            /\ ~abort_event => g.resumed]_vars

\* The correction pause of a record has been left by a press of Resume of
\* its own, after the subject-choice pause of the record had been resumed.
C37_Witness ==
    /\ w.pc = "a_recheck"
    /\ w.recLeft = RecPolls
    /\ w.ocr_status = "multiple_users"
    /\ g.resumed
    /\ ~abort_event

\* C38: the correction cycle is left for the rest of the record only from
\* the re-check, after a resume signal, with a count of exactly 2; a
\* re-check that ends with any other count, above or below 2, goes back
\* to the loop top, which pauses again with the resume flag cleared; and
\* no step of the cycle injects a key, a text or a click.
C38_CorrectionNeedsResumeAndTwo ==
    [][(w.pc \in CorrPcs /\ w' # w /\ w'.pc # "x_aborted")
         => /\ g'.inj = "none"
            /\ w'.pc \notin CorrPcs =>
                  /\ w.pc = "a_recheck"
                  /\ w'.c = 2
                  /\ g.sig
            /\ (w.pc = "a_recheck" /\ w'.pc = "a_corr") => w'.c # 2
            /\ w.pc = "a_corr" =>
                  /\ w'.pc = "a_pause2"
                  /\ ~resume_event'
                  /\ ~g'.sig
            /\ w.pc = "a_pause2" => w'.pc = "a_recheck" /\ resume_event]_vars

\* The re-check after a press of Resume has ended with one window only:
\* the engine is back at the top of the correction loop, about to pause
\* again.
C38_Witness ==
    /\ w.pc = "a_corr"
    /\ w.c = 1
    /\ g.resumed
    /\ ~abort_event
    /\ g.inj = "none"

\* C39: when ABORT has been pressed while the worker was blocked in a
\* pause, no later step of the worker injects a key, a text or a click,
\* the run is not reported otherwise than as stopped, and it does end
\* reported as stopped.
C39_AbortInPauseStopsRun ==
    /\ [][(g.inPause /\ w' # w) => g'.inj = "none"]_vars
    /\ [](g.inPause => g.report \in {"none", "stopped"})
    /\ (g.inPause ~> g.report = "stopped")

\* ABORT was pressed in a subject-choice pause; the worker saw the resume
\* flag first, left the wait, and was stopped in the delay that follows.
C39_Witness ==
    /\ g.inPause
    /\ ~g.resumed
    /\ w.pc = "x_aborted"
    /\ w.sleepLeft > 0
    /\ w.ocr_status = "multiple_users"
    /\ g.inj = "none"

\* C40: in a run started through on_assign_access the resume hooks are
\* installed as long as the worker is alive; they are cleared only by the
\* exit of the worker of such a run; and no run fails with 'GUI hooks not
\* initialized'.
C40_HooksInstalledWhileRunning ==
    /\ []((worker_alive /\ g.task = "assign") => hooks)
    /\ [](g.err # "hooks")
    /\ [][(hooks /\ ~hooks') =>
            /\ g.task = "assign"
            /\ w.pc \in {"x_returned", "x_aborted", "x_failed"}
            /\ worker_alive /\ ~worker_alive']_vars

\* A run of on_assign_access is paused with its hooks installed while the
\* callback posted by the exit of an earlier coordinate check is pending.
C40_Witness ==
    /\ w.pc \in PausePcs
    /\ g.task = "assign"
    /\ hooks
    /\ tkq # <<>>
    /\ Head(tkq) = "idle"

=============================================================================
